---- MODULE Spec2Model ----
(***************************************************************************)
(* State-machine model of the token authentication core of the             *)
(* sigma-cloud-neppo-integration repository:                               *)
(*   - getAuthentication  (Token Issuer)                                   *)
(*   - getAuthorization   (Token Authorizer, Express middleware)           *)
(*   - BasicAndBearerStrategy (Credential Exchange Cache)                  *)
(*   - OAuthStrategy (authorization URL and callback handling)             *)
(*   - HttpClient (request interceptor applying the strategy)              *)
(* Times are epoch milliseconds, as returned by Date.now().                *)
(***************************************************************************)
EXTENDS Integers, Sequences, FiniteSets, TLC

(***************************************************************************)
(* Bounds of the model.                                                    *)
(***************************************************************************)
MaxSteps == 4
MaxCacheSteps == 6
NumCallers == 2
MaxOAuthSteps == 4
MaxClientSteps == 5
MaxExtractSteps == 6
MaxRuns == 2
MaxPasses == 2
MaxRecords == 2
MaxPages == 2

(***************************************************************************)
(* The value standing for JavaScript's NaN.                                *)
(***************************************************************************)
NaN == -999999999

VARIABLES
  now,        \* Date.now()
  steps,      \* number of clock advances and calls so far (bounded by MaxSteps)
  env,        \* the deployment: process.env (JWT_SECRET, JWT_EXPIRES_IN) and code variant
  users,      \* prisma.users, keyed by username
  issued,     \* the last getAuthentication call and its outcome
  authz,      \* the last getAuthorization call and its outcome
  token,      \* BasicAndBearerStrategy.token
  expiresAt,  \* BasicAndBearerStrategy.expiresAt
  expirationBuffer,  \* BasicAndBearerStrategy.expirationBuffer (constructor argument)
  pc,         \* where each caller of authenticate() stands
  transport,  \* exchange calls made by each caller's current authenticate() invocation
  inflight,   \* exchange calls sent and not yet answered
  last,       \* the last operation on the strategy, with the cache as it found it
  oauth,      \* the private fields of one OAuthStrategy instance
  oauthPc,    \* where the handleCallback() in progress stands
  oauthLast,  \* the last operation on the OAuthStrategy, with the fields as it found them
  authenticationStrategy,  \* HttpClient.authenticationStrategy
  wire,       \* the current request of each caller of HttpClient.request()
  sendVariant,     \* which send job the deployment schedules
  extractVariant,  \* which cloud extraction job the deployment schedules
  surveys,    \* the satisfaction-survey table the jobs read; a row's id is its index
  dispatched, \* per row, the messages the Neppo endpoint has accepted for it
  passes,     \* the invocations of the send job the scheduler has started
  runs        \* the invocations of the extraction jobs the scheduler has started

authVars == <<env, users, issued, authz>>
cacheVars == <<token, expiresAt, expirationBuffer, pc, transport, inflight, last>>
oauthVars == <<oauth, oauthPc, oauthLast>>
clientVars == <<authenticationStrategy, wire>>
pipelineVars == <<sendVariant, extractVariant, surveys, dispatched, passes, runs>>
vars == <<now, steps, env, users, issued, authz,
          token, expiresAt, expirationBuffer, pc, transport, inflight, last,
          oauth, oauthPc, oauthLast, authenticationStrategy, wire,
          sendVariant, extractVariant, surveys, dispatched, passes, runs>>

(***************************************************************************)
(* Strings.  A text is a sequence of atoms; an atom is either the colon    *)
(* ":" or a run of characters without a colon.  String.split(':') cuts a   *)
(* text at every colon.                                                    *)
(***************************************************************************)
RECURSIVE SplitFrom(_, _, _)
SplitFrom(text, i, cur) ==
  IF i > Len(text) THEN <<cur>>
  ELSE IF text[i] = ":" THEN <<cur>> \o SplitFrom(text, i + 1, <<>>)
  ELSE SplitFrom(text, i + 1, Append(cur, text[i]))

SplitColon(text) == SplitFrom(text, 1, <<>>)

Includes(list, x) == \E i \in 1..Len(list) : list[i] = x

(***************************************************************************)
(* Lifetime strings (JWT_EXPIRES_IN) are sequences of characters.          *)
(***************************************************************************)
DigitValue == [c \in {"0", "1", "2", "3", "4", "5", "6", "7", "8", "9"} |->
  CASE c = "0" -> 0 [] c = "1" -> 1 [] c = "2" -> 2 [] c = "3" -> 3 [] c = "4" -> 4
    [] c = "5" -> 5 [] c = "6" -> 6 [] c = "7" -> 7 [] c = "8" -> 8 [] c = "9" -> 9]

IsDigit(c) == c \in DOMAIN DigitValue

\* parseInt: the value of the longest leading run of digits, NaN if there is none
RECURSIVE ParseDigits(_, _, _)
ParseDigits(s, i, acc) ==
  IF i > Len(s) \/ ~IsDigit(s[i]) THEN acc
  ELSE ParseDigits(s, i + 1, acc * 10 + DigitValue[s[i]])

parseInt(s) == IF Len(s) = 0 \/ ~IsDigit(s[1]) THEN NaN ELSE ParseDigits(s, 1, 0)

\* s.slice(0, -1) and s.slice(-1)
SliceInit(s) == IF Len(s) = 0 THEN <<>> ELSE SubSeq(s, 1, Len(s) - 1)
SliceLast(s) == IF Len(s) = 0 THEN <<>> ELSE <<s[Len(s)]>>

\* the ms package, as jsonwebtoken uses it for a string expiresIn: milliseconds
\* of "<digits><unit>" for the units it knows, the number itself (milliseconds)
\* for a bare number, undefined for anything else
MsUnit == [u \in {"s", "m", "h", "d", "w"} |->
  CASE u = "s" -> 1000 [] u = "m" -> 60000 [] u = "h" -> 3600000
    [] u = "d" -> 86400000 [] u = "w" -> 604800000]

AllDigits(s) == Len(s) > 0 /\ \A i \in 1..Len(s) : IsDigit(s[i])

ms(s) ==
  IF AllDigits(s) THEN parseInt(s)
  ELSE IF AllDigits(SliceInit(s)) /\ s[Len(s)] \in DOMAIN MsUnit
       THEN parseInt(SliceInit(s)) * MsUnit[s[Len(s)]]
  ELSE NaN

(***************************************************************************)
(* jsonwebtoken.  A token is its signed content: the payload fields, the   *)
(* registered claims iat / exp / nbf and the secret that signed it.  exp   *)
(* is kept in milliseconds (iat * 1000 + ms(expiresIn)) so that a          *)
(* fractional exp is exact.                                                *)
(***************************************************************************)
NoToken == [kind |-> "none", username |-> <<>>, roleList |-> <<>>,
            hasExpiresIn |-> FALSE, expiresIn |-> 0,
            iat |-> 0, expMs |-> 0, nbf |-> 0, sig |-> "none"]

\* process.env.JWT_EXPIRES_IN unset (undefined, or the empty string, which every
\* test of it in the code treats alike)
Unset == <<>>

\* the payload getAuthentication signs
SignedPayloadDropsRoles(username, roleList, expiresIn) ==
  [username |-> username, roleList |-> <<>>, expiresIn |-> expiresIn]

SignedPayload(username, roleList, expiresIn) ==
  [username |-> username, roleList |-> roleList, expiresIn |-> expiresIn]

\* JWT.sign(payload, secret, { expiresIn }) throws when the option is undefined
\* or empty, or is a string that ms() does not turn into a timespan
JwtSignThrows(expiresInOption) ==
  expiresInOption = Unset \/ ms(expiresInOption) = NaN

\* JWT.sign(payload, secret, { expiresIn }) at time t: iat is the clock in whole
\* seconds and exp is iat plus the timespan
JwtSign(payload, secret, expiresInOption, t) ==
  [kind |-> "jwt", username |-> payload.username, roleList |-> payload.roleList,
   hasExpiresIn |-> TRUE, expiresIn |-> payload.expiresIn,
   iat |-> t \div 1000, expMs |-> (t \div 1000) * 1000 + ms(expiresInOption),
   nbf |-> 0, sig |-> secret]

\* JWT.verify(token, secret) at time t: the error class it throws, or "ok".
\* The signature is checked first, then nbf, then exp (clock >= exp).
JwtVerify(jwt, secret, t) ==
  IF jwt.kind # "jwt" THEN "JsonWebTokenError"
  ELSE IF jwt.sig # secret THEN "JsonWebTokenError"
  ELSE IF jwt.nbf > t \div 1000 THEN "NotBeforeError"
  ELSE IF (t \div 1000) * 1000 >= jwt.expMs THEN "TokenExpiredError"
  ELSE "ok"

\* error instanceof JWT.JsonWebTokenError: NotBeforeError and TokenExpiredError
\* extend JsonWebTokenError
InstanceOfJsonWebTokenError(e) ==
  e \in {"JsonWebTokenError", "NotBeforeError", "TokenExpiredError"}

(***************************************************************************)
(* bcryptjs.  A stored hash wraps the password it was made from;           *)
(* compareSync is true exactly for that password.                          *)
(***************************************************************************)
BcryptHash(password) == [bcrypt |-> password]

compareSync(password, hash) == hash.bcrypt = password

(***************************************************************************)
(* The Authorization header of a request.  scheme is the text before the   *)
(* first space ("" when the header has no space: a bare token), tok the    *)
(* token after it (or the bare token), text the base64-decoded credentials *)
(* of a Basic header.                                                      *)
(***************************************************************************)
NoHeader == [present |-> FALSE, scheme |-> "", tok |-> NoToken, text |-> <<>>]

BasicHeader(text) == [present |-> TRUE, scheme |-> "Basic", tok |-> NoToken, text |-> text]

BearerHeader(tok) == [present |-> TRUE, scheme |-> "Bearer", tok |-> tok, text |-> <<>>]

BareHeader(tok) == [present |-> TRUE, scheme |-> "", tok |-> tok, text |-> <<>>]

(***************************************************************************)
(* getAuthentication (Token Issuer).  variant "service" is                 *)
(* expressium/services/getAuthentication.service.ts, variant "app" is      *)
(* expressium/src/services/app.service.ts.                                 *)
(***************************************************************************)
IssueFailure(kind) ==
  [kind |-> kind, username |-> <<>>, roleList |-> <<>>, token |-> NoToken, expiresIn |-> 0]

\* the switch on the unit suffix: Date.now() + lifetime in milliseconds
ExpiresInOf(lifetime, t) ==
  LET jwtExpiresInInt == parseInt(SliceInit(lifetime))
      unit == SliceLast(lifetime)
      plus(k) == IF jwtExpiresInInt = NaN THEN NaN ELSE t + jwtExpiresInInt * k
  IN  CASE unit = <<"s">> -> plus(1000)
        [] unit = <<"m">> -> plus(60 * 1000)
        [] unit = <<"h">> -> plus(60 * 60 * 1000)
        [] unit = <<"d">> -> plus(24 * 60 * 60 * 1000)
        [] OTHER -> t + 3600 * 1000

\* an exception escaping the body: the "service" variant has no try/catch and
\* rejects; the "app" variant catches it and returns a 500
IssueThrown(variant) ==
  IF variant = "app" THEN IssueFailure("InternalError") ELSE IssueFailure("Threw")

getAuthentication(variant, e, store, header, t) ==
  IF e.JWT_SECRET = "" THEN IssueFailure("ConfigError")
  ELSE IF variant = "app" /\ e.JWT_EXPIRES_IN = Unset THEN IssueFailure("ConfigError")
  ELSE IF ~header.present THEN IssueFailure("MalformedRequest")
  ELSE IF header.scheme # "Basic" THEN IssueFailure("MalformedRequest")
  ELSE
    LET parts == SplitColon(header.text)
        username == parts[1]
        lifetime == IF e.JWT_EXPIRES_IN = Unset THEN <<"1", "h">> ELSE e.JWT_EXPIRES_IN
        expiresIn == ExpiresInOf(lifetime, t)
    IN  IF username \notin DOMAIN store THEN IssueFailure("NotFound")
        ELSE IF ~store[username].is_user_active THEN IssueFailure("Inactive")
        ELSE IF Len(parts) < 2 THEN IssueThrown(variant)
        ELSE IF ~compareSync(parts[2], store[username].password)
          THEN IssueFailure("BadCredentials")
        ELSE IF JwtSignThrows(e.JWT_EXPIRES_IN) THEN IssueThrown(variant)
        ELSE [kind |-> "Ok", username |-> username,
              roleList |-> store[username].role_list,
              token |-> JwtSign(SignedPayload(username, store[username].role_list, expiresIn),
                                e.JWT_SECRET, e.JWT_EXPIRES_IN, t),
              expiresIn |-> expiresIn]

(***************************************************************************)
(* getAuthorization (Token Authorizer).  variant "app" is the middleware   *)
(* of expressium/src (it accepts a bare or a Bearer-prefixed token),       *)
(* variant "service" the one of expressium (Bearer only).                  *)
(* A run records what the middleware did with res, req and next.           *)
(***************************************************************************)
\* responses: what was sent with res.json; nextCalls: calls of next(); user: the
\* claims attached to req; threw: the promise rejected; returned: the value the
\* function returned instead of sending it; verified: JWT.verify was called
NoRun == [responses |-> <<>>, nextCalls |-> 0, user |-> NoToken, threw |-> FALSE,
          returned |-> "none", verified |-> FALSE]

\* res.status(..).json(..): Express sends the response, and throws
\* ("Cannot set headers after they are sent") when one was sent before
Send(run, kind) ==
  IF run.responses # <<>> THEN [run EXCEPT !.threw = TRUE]
  ELSE [run EXCEPT !.responses = <<kind>>]

\* the outer catch block: it sends the 500 response itself
OuterCatch(run) == Send([run EXCEPT !.threw = FALSE], "InternalError")

\* the inner catch block: the first instanceof test that matches decides
VerifyErrorKind(e) ==
  IF InstanceOfJsonWebTokenError(e) THEN "InvalidToken"
  ELSE IF e = "NotBeforeError" THEN "NotYetActive"
  ELSE "Expired"

\* roleList?.forEach(role => { if (!decoded.roleList.includes(role)) { res...; return; } })
\* the return leaves the callback only; an exception ends the loop
RECURSIVE ForEachRole(_, _, _, _)
ForEachRole(roleList, i, decoded, run) ==
  IF i > Len(roleList) THEN run
  ELSE IF ~Includes(decoded.roleList, roleList[i])
    THEN LET sent == Send(run, "InsufficientRole")
         IN  IF sent.threw THEN sent ELSE ForEachRole(roleList, i + 1, decoded, sent)
  ELSE ForEachRole(roleList, i + 1, decoded, run)

\* the application-level expiry test on the decoded payload
ClaimExpired(variant, decoded, t) ==
  decoded.hasExpiresIn /\ (variant = "app" \/ decoded.expiresIn # 0) /\ t > decoded.expiresIn

\* the token string handed to JWT.verify
PresentedTokenOfActiveUser(variant, header) ==
  IF header.scheme = "Bearer" \/ header.scheme = ""
    THEN IF header.tok.username \in DOMAIN users /\ ~users[header.tok.username].is_user_active
           THEN NoToken ELSE header.tok
    ELSE NoToken

PresentedToken(variant, header) ==
  IF header.scheme = "Bearer" \/ header.scheme = "" THEN header.tok ELSE NoToken

\* if (!reqHeadersAuthorization)
NoAuthorizationHeaderIgnored(header) == FALSE

NoAuthorizationHeader(header) == ~header.present

getAuthorization(variant, e, header, roleList, t) ==
  IF e.JWT_SECRET = ""
    THEN IF variant = "app" THEN Send(NoRun, "ConfigError")
         ELSE [NoRun EXCEPT !.returned = "ConfigError"]
  ELSE IF NoAuthorizationHeader(header) THEN Send(NoRun, "MissingToken")
  ELSE IF variant = "service" /\ header.scheme # "Bearer" THEN Send(NoRun, "InvalidScheme")
  ELSE
    LET decoded == PresentedToken(variant, header)
        verdict == JwtVerify(decoded, e.JWT_SECRET, t)
        verifying == [NoRun EXCEPT !.verified = TRUE]
    IN  IF verdict # "ok" THEN Send(verifying, VerifyErrorKind(verdict))
        ELSE
          LET checked == ForEachRole(roleList, 1, decoded, verifying)
          IN  IF checked.threw THEN OuterCatch(checked)
              ELSE IF ClaimExpired(variant, decoded, t)
                THEN LET sent == Send(checked, "Expired")
                     IN  IF sent.threw THEN OuterCatch(sent) ELSE sent
              ELSE [checked EXCEPT !.user = decoded, !.nextCalls = 1]

(***************************************************************************)
(* The state machine of the issuer and the authorizer.                     *)
(***************************************************************************)
StartTime == 1000500

Lifetimes == {<<"2", "h">>, <<"1", "s">>, <<"1", "w">>, <<"2", "x">>, Unset}

UserStore ==
  [u \in {<<"alice">>, <<"bob">>, <<"carol">>} |->
    CASE u = <<"alice">> ->
           [is_user_active |-> TRUE, password |-> BcryptHash(<<"secret123">>),
            role_list |-> <<"admin", "audit">>]
      [] u = <<"bob">> ->
           [is_user_active |-> FALSE, password |-> BcryptHash(<<"pw">>),
            role_list |-> <<"user">>]
      [] u = <<"carol">> ->
           [is_user_active |-> TRUE, password |-> BcryptHash(<<"pa", ":", "ss">>),
            role_list |-> <<"user", "audit">>]]

\* credential headers a client may send to the issuer
IssueHeaders ==
  {NoHeader, BearerHeader(NoToken),
   BasicHeader(<<"alice", ":", "secret123">>), BasicHeader(<<"alice", ":", "wrong">>),
   BasicHeader(<<"alice">>), BasicHeader(<<"bob", ":", "pw">>),
   BasicHeader(<<"zed", ":", "pw">>), BasicHeader(<<"carol", ":", "pa", ":", "ss">>)}

\* role lists a route may require (roleList of generateRoute)
RoleLists == {<<>>, <<"admin">>, <<"audit", "root">>, <<"root", "ops">>}

\* tokens a client may present: the one it was issued, that token with a
\* signature that does not verify, and a token another service signed with the
\* same secret, not yet active and without the expiresIn claim
ForeignTokens(e, t) ==
  {[kind |-> "jwt", username |-> <<"svc">>, roleList |-> <<"admin">>,
    hasExpiresIn |-> FALSE, expiresIn |-> 0,
    iat |-> t \div 1000, expMs |-> (t \div 1000) * 1000 + 3600000, nbf |-> nbf,
    sig |-> e.JWT_SECRET] : nbf \in {(t \div 1000) + 60}}

PresentableTokens ==
  (IF issued.result.kind = "Ok"
     THEN {issued.result.token, [issued.result.token EXCEPT !.sig = "forged"]} ELSE {})
  \cup ForeignTokens(env, now)

AuthorizeHeaders ==
  {NoHeader} \cup {BearerHeader(k) : k \in PresentableTokens}
             \cup {BareHeader(k) : k \in PresentableTokens}

NoIssue == [IssueFailure("none") EXCEPT !.kind = "none"]

InitAuth ==
  /\ env \in [JWT_SECRET : {"", "k1"}, JWT_EXPIRES_IN : Lifetimes, variant : {"app", "service"}]
  /\ users = UserStore
  /\ issued = [call |-> [header |-> NoHeader, at |-> 0, store |-> UserStore],
               result |-> NoIssue]
  /\ authz = [call |-> [header |-> NoHeader, roleList |-> <<>>, at |-> 0, store |-> UserStore],
              called |-> FALSE, run |-> NoRun]

Deltas == {1, 7200000}

Tick(d) ==
  /\ steps < MaxSteps
  /\ now' = now + d
  /\ steps' = steps + 1
  /\ UNCHANGED authVars
  /\ UNCHANGED cacheVars
  /\ UNCHANGED oauthVars
  /\ UNCHANGED clientVars
  /\ UNCHANGED pipelineVars

Issue(header) ==
  /\ steps < MaxSteps
  /\ steps' = steps + 1
  /\ issued' = [call |-> [header |-> header, at |-> now, store |-> users],
                result |-> getAuthentication(env.variant, env, users, header, now)]
  /\ UNCHANGED <<now, env, users, authz>>
  /\ UNCHANGED cacheVars
  /\ UNCHANGED oauthVars
  /\ UNCHANGED clientVars
  /\ UNCHANGED pipelineVars

Authorize(header, roleList) ==
  /\ steps < MaxSteps
  /\ steps' = steps + 1
  /\ authz' = [call |-> [header |-> header, roleList |-> roleList, at |-> now, store |-> users],
               called |-> TRUE,
               run |-> getAuthorization(env.variant, env, header, roleList, now)]
  /\ UNCHANGED <<now, env, users, issued>>
  /\ UNCHANGED cacheVars
  /\ UNCHANGED oauthVars
  /\ UNCHANGED clientVars
  /\ UNCHANGED pipelineVars

\* the users table is written by whoever administers the accounts: a record is
\* deactivated or reactivated, and its role list replaced, between two requests
UpdatedRoleLists == {<<"admin", "audit">>, <<"audit">>}

UpdateUser(u, active, role_list) ==
  /\ steps < MaxSteps
  /\ u \in DOMAIN users
  /\ users[u].is_user_active # active \/ users[u].role_list # role_list
  /\ steps' = steps + 1
  /\ users' = [users EXCEPT ![u].is_user_active = active, ![u].role_list = role_list]
  /\ UNCHANGED <<now, env, issued, authz>>
  /\ UNCHANGED cacheVars
  /\ UNCHANGED oauthVars
  /\ UNCHANGED clientVars
  /\ UNCHANGED pipelineVars

(***************************************************************************)
(* BasicAndBearerStrategy (Credential Exchange Cache).  authenticate() is  *)
(* an async function: it runs to its await, the exchange is answered       *)
(* later, obtainToken() finishes, and authenticate() resumes in a later    *)
(* job.  Other callers, invalidateToken() and the clock may act in         *)
(* between.                                                                *)
(***************************************************************************)
Callers == 1..NumCallers

\* this.token is null until a token is stored; an extractor that finds no
\* token field yields undefined
TokenNull == "null"
TokenUndefined == "undefined"

\* what the extractors may read from an exchange response
ExtractedTokens == {"abc", "xyz", TokenUndefined}
ExtractedExpiries == {1000, NaN}
ExpirationBuffers == {100, 60000}

Truthy(tok) == tok \notin {TokenNull, TokenUndefined, ""}

\* Date.now() + expiresIn - this.expirationBuffer, in floating point
ExpiryOf(t, expiresIn, buffer) == IF expiresIn = NaN THEN NaN ELSE t + expiresIn - buffer

\* a < b in floating point: false when either side is NaN
Less(a, b) == a # NaN /\ b # NaN /\ a < b

isTokenValid(tok, exp, t) == Truthy(tok) /\ Less(t, exp)

NoOp == [op |-> "none", caller |-> 0, at |-> 0, token |-> TokenNull, expiresAt |-> 0,
         after |-> "none", afterExpiresAt |-> 0,
         extractedToken |-> TokenNull, extractedExpiry |-> 0, handed |-> TokenNull]

\* the record of an operation: what it was, who ran it and when, the cache it
\* found, and the operation before it with the expiry that one found
Op(name, c) ==
  [NoOp EXCEPT !.op = name, !.caller = c, !.at = now, !.token = token,
               !.expiresAt = expiresAt, !.after = last.op,
               !.afterExpiresAt = last.expiresAt]

InitCache ==
  /\ token = TokenNull
  /\ expiresAt = 0
  /\ expirationBuffer \in ExpirationBuffers
  /\ pc = [c \in Callers |-> "idle"]
  /\ transport = [c \in Callers |-> 0]
  /\ inflight = 0
  /\ last = NoOp

Idle(c) == pc[c] \in {"idle", "done", "failed"}

\* authenticate(), cache hit: the cached token goes into the header at once
authenticateHitSlides(c) ==
  /\ Idle(c)
  /\ isTokenValid(token, expiresAt, now)
  /\ pc' = [pc EXCEPT ![c] = "done"]
  /\ transport' = [transport EXCEPT ![c] = 0]
  /\ last' = [Op("hit", c) EXCEPT !.handed = token]
  /\ expiresAt' = now + 1000
  /\ UNCHANGED <<token, expirationBuffer, inflight>>

authenticateHit(c) ==
  /\ Idle(c)
  /\ isTokenValid(token, expiresAt, now)
  /\ pc' = [pc EXCEPT ![c] = "done"]
  /\ transport' = [transport EXCEPT ![c] = 0]
  /\ last' = [Op("hit", c) EXCEPT !.handed = token]
  /\ UNCHANGED <<token, expiresAt, expirationBuffer, inflight>>

\* authenticate(), cache miss: obtainToken() sends the exchange call and awaits it
authenticateMissRetries(c) ==
  /\ Idle(c)
  /\ ~isTokenValid(token, expiresAt, now)
  /\ pc' = [pc EXCEPT ![c] = "awaiting"]
  /\ transport' = [transport EXCEPT ![c] = 2]
  /\ inflight' = inflight + 2
  /\ last' = Op("miss", c)
  /\ UNCHANGED <<token, expiresAt, expirationBuffer>>

authenticateMiss(c) ==
  /\ Idle(c)
  /\ ~isTokenValid(token, expiresAt, now)
  /\ pc' = [pc EXCEPT ![c] = "awaiting"]
  /\ transport' = [transport EXCEPT ![c] = 1]
  /\ inflight' = inflight + 1
  /\ last' = Op("miss", c)
  /\ UNCHANGED <<token, expiresAt, expirationBuffer>>

\* obtainToken() after the await: the response arrived and the extractors returned
obtainTokenNoBuffer(c, tok, expiresIn) ==
  /\ pc[c] = "awaiting"
  /\ token' = tok
  /\ expiresAt' = ExpiryOf(now, expiresIn, 0)
  /\ pc' = [pc EXCEPT ![c] = "resolved"]
  /\ inflight' = inflight - transport[c]
  /\ last' = [Op("exchanged", c) EXCEPT !.extractedToken = tok, !.extractedExpiry = expiresIn]
  /\ UNCHANGED <<expirationBuffer, transport>>

obtainTokenKeepsFirst(c, tok, expiresIn) ==
  /\ pc[c] = "awaiting"
  /\ token' = IF Truthy(token) THEN token ELSE tok
  /\ expiresAt' = ExpiryOf(now, expiresIn, expirationBuffer)
  /\ pc' = [pc EXCEPT ![c] = "resolved"]
  /\ inflight' = inflight - transport[c]
  /\ last' = [Op("exchanged", c) EXCEPT !.extractedToken = tok, !.extractedExpiry = expiresIn]
  /\ UNCHANGED <<expirationBuffer, transport>>

obtainToken(c, tok, expiresIn) ==
  /\ pc[c] = "awaiting"
  /\ token' = tok
  /\ expiresAt' = ExpiryOf(now, expiresIn, expirationBuffer)
  /\ pc' = [pc EXCEPT ![c] = "resolved"]
  /\ inflight' = inflight - transport[c]
  /\ last' = [Op("exchanged", c) EXCEPT !.extractedToken = tok, !.extractedExpiry = expiresIn]
  /\ UNCHANGED <<expirationBuffer, transport>>

\* obtainToken(), catch block: the request failed or an extractor threw;
\* authenticate() rejects with it
obtainTokenFailsRetries(c) ==
  /\ pc[c] = "awaiting"
  /\ pc' = pc
  /\ transport' = [transport EXCEPT ![c] = 2]
  /\ inflight' = inflight
  /\ last' = Op("exchangeFailed", c)
  /\ UNCHANGED <<token, expiresAt, expirationBuffer>>

obtainTokenFails(c) ==
  /\ pc[c] = "awaiting"
  /\ pc' = [pc EXCEPT ![c] = "failed"]
  /\ inflight' = inflight - transport[c]
  /\ last' = Op("exchangeFailed", c)
  /\ UNCHANGED <<token, expiresAt, expirationBuffer, transport>>

\* authenticate() after its await: it puts this.token, as it is now, into the header
authenticateResume(c) ==
  /\ pc[c] = "resolved"
  /\ pc' = [pc EXCEPT ![c] = "done"]
  /\ last' = [Op("resumed", c) EXCEPT !.handed = token]
  /\ UNCHANGED <<token, expiresAt, expirationBuffer, transport, inflight>>

invalidateTokenKeepsExpiry ==
  /\ token' = TokenNull
  /\ expiresAt' = expiresAt
  /\ last' = Op("invalidated", 0)
  /\ UNCHANGED <<expirationBuffer, pc, transport, inflight>>

invalidateToken ==
  /\ token' = TokenNull
  /\ expiresAt' = 0
  /\ last' = Op("invalidated", 0)
  /\ UNCHANGED <<expirationBuffer, pc, transport, inflight>>

\* the strategy as createDesktopSatisfactionSurveys builds it: the exchange goes
\* to a getAuthentication issuer, and the expirationExtractor hands on the
\* expiresIn field of its answer as it is
QueryGatewayExpiresIn(t) ==
  getAuthentication(env.variant, env, users, BasicHeader(<<"alice", ":", "secret123">>),
                    t).expiresIn

CacheDeltas == {1, 899}

CacheStep(A) ==
  /\ steps < MaxCacheSteps
  /\ steps' = steps + 1
  /\ A
  /\ UNCHANGED authVars
  /\ UNCHANGED oauthVars
  /\ UNCHANGED clientVars
  /\ UNCHANGED pipelineVars

TickCache(d) == CacheStep(now' = now + d /\ UNCHANGED cacheVars)

(***************************************************************************)
(* HttpClient.  request() hands the request to the axios instance, whose   *)
(* request interceptor awaits authenticate() of the strategy set at that   *)
(* moment; axios transmits the request when the interceptor resolves and   *)
(* rejects it, without transmitting, when the interceptor rejects.         *)
(***************************************************************************)
StrategyUndefined == "undefined"
StrategySet == "BasicAndBearerStrategy"

\* a request: where it stands, the strategy the interceptor read, and the
\* token of the Authorization header it was transmitted with
NoRequest == [state |-> "none", strategy |-> StrategyUndefined, authorization |-> "none"]

InitClient ==
  /\ authenticationStrategy = StrategyUndefined
  /\ wire = [c \in Callers |-> NoRequest]

setAuthenticationStrategy ==
  /\ authenticationStrategy' = StrategySet
  /\ UNCHANGED <<wire, cacheVars>>

clearAuthenticationStrategy ==
  /\ authenticationStrategy' = StrategyUndefined
  /\ UNCHANGED <<wire, cacheVars>>

\* request(): the interceptor up to its return or its await
request(c) ==
  /\ wire[c].state # "intercepted"
  /\ UNCHANGED authenticationStrategy
  /\ IF authenticationStrategy = StrategyUndefined
       THEN /\ wire' = [wire EXCEPT ![c] = [NoRequest EXCEPT !.state = "transmitted"]]
            /\ last' = Op("unauthenticated", c)
            /\ UNCHANGED <<token, expiresAt, expirationBuffer, pc, transport, inflight>>
       ELSE \/ /\ authenticateHit(c)
               /\ wire' = [wire EXCEPT ![c] = [state |-> "transmitted",
                                               strategy |-> authenticationStrategy,
                                               authorization |-> token]]
            \/ /\ authenticateMiss(c)
               /\ wire' = [wire EXCEPT ![c] = [state |-> "intercepted",
                                               strategy |-> authenticationStrategy,
                                               authorization |-> "none"]]

\* the exchange of an intercepted request is answered
exchangeAnswered(c, tok, expiresIn) ==
  /\ obtainToken(c, tok, expiresIn)
  /\ UNCHANGED clientVars

\* authenticate() resolved: the interceptor returns its configuration and axios
\* transmits the request
interceptorResolved(c) ==
  /\ authenticateResume(c)
  /\ wire' = [wire EXCEPT ![c].state = "transmitted", ![c].authorization = token]
  /\ UNCHANGED authenticationStrategy

\* authenticate() rejected: the interceptor rejects and so does request()
interceptorRejectedStillSends(c) ==
  /\ obtainTokenFails(c)
  /\ wire' = [wire EXCEPT ![c].state = "transmitted"]
  /\ UNCHANGED authenticationStrategy

interceptorRejected(c) ==
  /\ obtainTokenFails(c)
  /\ wire' = [wire EXCEPT ![c].state = "rejected"]
  /\ UNCHANGED authenticationStrategy

ClientStep(A) ==
  /\ steps < MaxClientSteps
  /\ steps' = steps + 1
  /\ A
  /\ UNCHANGED now
  /\ UNCHANGED authVars
  /\ UNCHANGED oauthVars
  /\ UNCHANGED pipelineVars

(***************************************************************************)
(* OAuthStrategy.  getAuthorizationUrl() stores a fresh random state;      *)
(* handleCallback() parses the callback URL, compares its state parameter  *)
(* with the stored one and, in the authorization-code flow, awaits the     *)
(* token endpoint before it stores the tokens.  One handleCallback() is in *)
(* progress at a time.  getToken() returns the valid access token, or      *)
(* awaits a refresh and then the acquisition of the grant type;            *)
(* revokeToken() awaits the revocation requests and then forgets the       *)
(* tokens.  One asynchronous operation is in progress at a time.           *)
(***************************************************************************)
\* null: a private field not yet set, URLSearchParams.get() of an absent parameter
Null == "<null>"

\* grantType argument of the constructor
GrantTypes == {"authorization_code", "implicit", "client_credentials", "password"}

\* expirationBuffer argument of the constructor, at its default
OAuthExpirationBuffer == 60000

\* values generateRandomString(32) may return
GeneratedStates == {"s1", "s2"}

\* the parameters of a URL's query or fragment; expires_in is text
NoParams == [state |-> Null, code |-> Null, error |-> Null, access_token |-> Null,
             expires_in |-> <<>>]

\* new URL(callbackUrl): url.search and url.hash
NoUrl == [search |-> NoParams, hash |-> NoParams]

CallbackUrls ==
  {[search |-> [NoParams EXCEPT !.state = s, !.code = c, !.error = e], hash |-> NoParams] :
     s \in GeneratedStates \cup {Null}, c \in {Null, "c1"}, e \in {Null, "access_denied"}}
  \cup
  {[search |-> NoParams, hash |-> [NoParams EXCEPT !.state = s, !.access_token = a,
                                                   !.expires_in = x]] :
     s \in GeneratedStates \cup {Null}, a \in {Null, "at0"}, x \in {<<>>, <<"6", "0">>}}

\* response.data of the token endpoint; expires_in 0 stands for an absent field
TokenResponses ==
  [access_token : {"at1", "at2"}, refresh_token : {Null, "rt1"}, expires_in : {0, 120}]

accessTokenExtractor(response) == response.access_token

refreshTokenExtractor(response) == response.refresh_token

expirationExtractor(response) ==
  (IF response.expires_in = 0 THEN 3600 ELSE response.expires_in) * 1000

InitOAuth ==
  /\ oauth \in [grantType : GrantTypes, state : {Null}, accessTokenValue : {Null},
                 refreshTokenValue : {Null}, expiresAt : {0}]
  /\ oauthPc = "idle"
  /\ oauthLast = [op |-> "none", outcome |-> "none", url |-> NoUrl, found |-> oauth,
                  urlIssued |-> FALSE, at |-> 0, calls |-> <<>>, returned |-> Null,
                  withParameterMap |-> FALSE, revokeRefreshToken |-> FALSE,
                  refreshFailed |-> FALSE]

\* the record of an operation: its name and outcome, the callback URL it was
\* given, the fields as it found them, whether getAuthorizationUrl() has
\* generated a state on this instance before, when it started, the requests
\* it has sent to the token endpoint, the token it returned, its arguments,
\* and whether its refresh failed
OAuthOp(name, outcome, url) ==
  [op |-> name, outcome |-> outcome, url |-> url, found |-> oauth,
   urlIssued |-> oauthLast.urlIssued, at |-> now, calls |-> <<>>, returned |-> Null,
   withParameterMap |-> FALSE, revokeRefreshToken |-> FALSE, refreshFailed |-> FALSE]

getAuthorizationUrl(s) ==
  /\ IF oauth.grantType \notin {"authorization_code", "implicit"}
       THEN /\ oauth' = oauth
            /\ oauthLast' = OAuthOp("getAuthorizationUrl", "NotApplicable", NoUrl)
       ELSE /\ oauth' = [oauth EXCEPT !.state = s]
            /\ oauthLast' = [OAuthOp("getAuthorizationUrl", "Ok", NoUrl)
                               EXCEPT !.urlIssued = TRUE]
  /\ UNCHANGED oauthPc

\* handleCallback() up to its return, its throw or its await
handleCallback(url) ==
  /\ oauthPc = "idle"
  /\ IF oauth.grantType = "implicit"
       THEN IF url.hash.state # oauth.state
              THEN /\ oauthLast' = OAuthOp("handleCallback", "StateMismatch", url)
                   /\ UNCHANGED <<oauth, oauthPc>>
            ELSE IF url.hash.access_token = Null
              THEN /\ oauthLast' = OAuthOp("handleCallback", "NoAccessToken", url)
                   /\ UNCHANGED <<oauth, oauthPc>>
            ELSE /\ oauth' = [oauth EXCEPT
                               !.accessTokenValue = url.hash.access_token,
                               !.expiresAt = IF url.hash.expires_in # <<>>
                                               THEN now + parseInt(url.hash.expires_in) * 1000
                                               ELSE 0]
                 /\ oauthLast' = OAuthOp("handleCallback", "Ok", url)
                 /\ UNCHANGED oauthPc
       ELSE IF url.search.state # oauth.state
              THEN /\ oauthLast' = OAuthOp("handleCallback", "StateMismatch", url)
                   /\ UNCHANGED <<oauth, oauthPc>>
            ELSE IF url.search.code = Null
              THEN /\ oauthLast' = OAuthOp("handleCallback", "NoCode", url)
                   /\ UNCHANGED <<oauth, oauthPc>>
            ELSE IF url.search.error # Null
              THEN /\ oauthLast' = OAuthOp("handleCallback", "OAuthError", url)
                   /\ UNCHANGED <<oauth, oauthPc>>
            ELSE /\ oauthPc' = "exchanging"
                 /\ oauthLast' = OAuthOp("handleCallback", "Exchanging", url)
                 /\ UNCHANGED oauth

\* handleCallback() after the await: the token endpoint answered
handleCallbackResponse(response) ==
  /\ oauthPc = "exchanging"
  /\ oauthPc' = "idle"
  /\ oauth' = [oauth EXCEPT
                !.accessTokenValue = accessTokenExtractor(response),
                !.refreshTokenValue = refreshTokenExtractor(response),
                !.expiresAt = now + expirationExtractor(response) - OAuthExpirationBuffer]
  /\ oauthLast' = OAuthOp("handleCallbackResponse", "Ok", oauthLast.url)

\* handleCallback(), catch block: the request to the token endpoint failed
handleCallbackFails ==
  /\ oauthPc = "exchanging"
  /\ oauthPc' = "idle"
  /\ oauthLast' = OAuthOp("handleCallbackResponse", "ExchangeFailed", oauthLast.url)
  /\ UNCHANGED oauth

\* setTokens(accessToken, refreshToken, expiresIn); expiresIn 0 stands for an
\* omitted argument, refreshToken Null likewise
setTokens(accessToken, refreshToken, expiresIn) ==
  /\ oauth' = [oauth EXCEPT
                !.accessTokenValue = accessToken,
                !.refreshTokenValue = IF refreshToken # Null THEN refreshToken ELSE @,
                !.expiresAt = IF expiresIn # 0
                                THEN now + expiresIn * 1000 - OAuthExpirationBuffer
                                ELSE now + 3600000 - OAuthExpirationBuffer]
  /\ oauthLast' = OAuthOp("setTokens", "Ok", NoUrl)
  /\ UNCHANGED oauthPc

\* isTokenValid() of the OAuthStrategy
oauthIsTokenValid(o, t) == o.accessTokenValue # Null /\ t < o.expiresAt

\* the switch of getToken(): the request of the grant type is sent, or an error thrown
AcquireByGrant(op) ==
  CASE oauth.grantType = "client_credentials" ->
         /\ oauthPc' = "acquiring"
         /\ oauthLast' = [op EXCEPT !.outcome = "Acquiring",
                                    !.calls = Append(@, "client_credentials")]
    [] oauth.grantType = "password" ->
         IF op.withParameterMap
           THEN /\ oauthPc' = "acquiring"
                /\ oauthLast' = [op EXCEPT !.outcome = "Acquiring",
                                           !.calls = Append(@, "password")]
           ELSE /\ oauthPc' = "idle"
                /\ oauthLast' = [op EXCEPT !.outcome = "CredentialsRequired"]
    [] OTHER ->
         /\ oauthPc' = "idle"
         /\ oauthLast' = [op EXCEPT !.outcome = "InteractionRequired"]

\* getToken() up to its return, its throw or its first await
getTokenSkipsRefresh(withParameterMap) ==
  /\ oauthPc = "idle"
  /\ LET op == [OAuthOp("getToken", "Returned", NoUrl)
                  EXCEPT !.withParameterMap = withParameterMap]
     IN  IF oauthIsTokenValid(oauth, now)
           THEN /\ oauthLast' = [op EXCEPT !.returned = oauth.accessTokenValue]
                /\ UNCHANGED <<oauth, oauthPc>>
           ELSE AcquireByGrant(op) /\ UNCHANGED oauth

getToken(withParameterMap) ==
  /\ oauthPc = "idle"
  /\ LET op == [OAuthOp("getToken", "Returned", NoUrl)
                  EXCEPT !.withParameterMap = withParameterMap]
     IN  IF oauthIsTokenValid(oauth, now)
           THEN /\ oauthLast' = [op EXCEPT !.returned = oauth.accessTokenValue]
                /\ UNCHANGED <<oauth, oauthPc>>
         ELSE IF oauth.refreshTokenValue # Null
           THEN /\ oauthPc' = "refreshing"
                /\ oauthLast' = [op EXCEPT !.outcome = "Refreshing",
                                           !.calls = <<"refresh_token">>]
                /\ UNCHANGED oauth
         ELSE AcquireByGrant(op) /\ UNCHANGED oauth

\* refreshAccessToken() after the await: the token endpoint answered
refreshAccessToken(response) ==
  /\ oauthPc = "refreshing"
  /\ oauthPc' = "idle"
  /\ oauth' = [oauth EXCEPT
                !.accessTokenValue = accessTokenExtractor(response),
                !.refreshTokenValue = IF refreshTokenExtractor(response) # Null
                                        THEN refreshTokenExtractor(response) ELSE @,
                !.expiresAt = now + expirationExtractor(response) - OAuthExpirationBuffer]
  /\ oauthLast' = [oauthLast EXCEPT !.outcome = "Returned",
                                    !.returned = accessTokenExtractor(response)]

\* refreshAccessToken(), catch block: the tokens are forgotten; getToken()
\* catches the error and goes on to its switch
refreshAccessTokenFails ==
  /\ oauthPc = "refreshing"
  /\ oauth' = [oauth EXCEPT !.accessTokenValue = Null, !.refreshTokenValue = Null,
                            !.expiresAt = 0]
  /\ AcquireByGrant([oauthLast EXCEPT !.refreshFailed = TRUE])

\* getClientCredentialsToken() / getPasswordToken() after the await
acquireTokenResponse(response) ==
  /\ oauthPc = "acquiring"
  /\ oauthPc' = "idle"
  /\ oauth' = [oauth EXCEPT
                !.accessTokenValue = accessTokenExtractor(response),
                !.refreshTokenValue = IF oauth.grantType = "password"
                                        THEN refreshTokenExtractor(response) ELSE @,
                !.expiresAt = now + expirationExtractor(response) - OAuthExpirationBuffer]
  /\ oauthLast' = [oauthLast EXCEPT !.outcome = "Returned",
                                    !.returned = accessTokenExtractor(response)]

\* getClientCredentialsToken() / getPasswordToken(), catch block
acquireTokenFails ==
  /\ oauthPc = "acquiring"
  /\ oauthPc' = "idle"
  /\ oauthLast' = [oauthLast EXCEPT !.outcome = "AcquisitionFailed"]
  /\ UNCHANGED oauth

\* revokeToken(revokeUrl, revokeRefreshToken) up to its return or its first await
revokeToken(revokeRefreshToken) ==
  /\ oauthPc = "idle"
  /\ IF oauth.accessTokenValue = Null
       THEN /\ oauthLast' = [OAuthOp("revokeToken", "Returned", NoUrl)
                               EXCEPT !.revokeRefreshToken = revokeRefreshToken]
            /\ UNCHANGED <<oauth, oauthPc>>
       ELSE /\ oauthPc' = "revoking"
            /\ oauthLast' = [OAuthOp("revokeToken", "Revoking", NoUrl)
                               EXCEPT !.revokeRefreshToken = revokeRefreshToken]
            /\ UNCHANGED oauth

\* revokeToken() after its awaits: the requests succeeded, or one failed and
\* the catch block logged it; the finally block runs either way
revokeTokenSettles(ok) ==
  /\ oauthPc = "revoking"
  /\ oauthPc' = "idle"
  /\ oauth' = [oauth EXCEPT
                !.accessTokenValue = Null,
                !.refreshTokenValue = IF oauthLast.revokeRefreshToken THEN Null ELSE @,
                !.expiresAt = 0]
  /\ oauthLast' = [oauthLast EXCEPT
                     !.outcome = IF ok THEN "Revoked" ELSE "RevocationFailed"]

OAuthDeltas == {60000}

OAuthStep(A) ==
  /\ steps < MaxOAuthSteps
  /\ steps' = steps + 1
  /\ A
  /\ UNCHANGED authVars
  /\ UNCHANGED cacheVars
  /\ UNCHANGED clientVars
  /\ UNCHANGED pipelineVars

TickOAuth(d) == OAuthStep(now' = now + d /\ UNCHANGED oauthVars)

(***************************************************************************)
(* The survey pipeline.  The scheduler starts the extraction jobs and the  *)
(* send job on their cron rules, whether or not an earlier invocation has  *)
(* returned.  An extraction job reads the whole table once, then walks the *)
(* remote pages and creates a 'pending' row for each service order it did  *)
(* not find in what it read.  The send job reads the 'pending' rows, posts *)
(* one message per row and writes 'sent' or 'failed'.                      *)
(***************************************************************************)
\* the send jobs: part_004 (like sendNotification) reads and updates one
\* table; sendSatisfactionSurveys.service.ts reads one table and updates another
SendVariants == {"part_004", "sendSatisfactionSurveys.service"}

\* the cloud extraction jobs
ExtractVariants == {"part_003", "createCloudNeppoSatisfactionSurveys.service"}

Passes == 1..MaxPasses
Runs == 1..MaxRuns

\* sequential ids of the service orders the remote sources report
Orders == 1..MaxRecords

\* a row of the table, as the extraction jobs create it
SurveyRow(sequential_id, type) ==
  [sequential_id |-> sequential_id, type |-> type, status |-> "pending"]

\* a table of n rows left 'pending' by earlier extraction runs
PendingTable(n) == [i \in 1..n |-> SurveyRow(i, "cloud")]

NoSendPass == [pc |-> "idle", task |-> <<>>]

NoExtraction == [kind |-> "none", pc |-> "idle", snapshot |-> {}, page |-> 0,
                 requested |-> <<>>, pending |-> {}, isLast |-> FALSE, failed |-> FALSE]

InitPipeline ==
  /\ sendVariant \in SendVariants
  /\ extractVariant \in ExtractVariants
  /\ surveys \in {PendingTable(n) : n \in 0..MaxRecords}
  /\ dispatched = [i \in DOMAIN surveys |-> 0]
  /\ passes = [p \in Passes |-> NoSendPass]
  /\ runs = [r \in Runs |-> NoExtraction]

\* findMany({ where: { status: 'pending' } }): the ids of the rows selected
FindPending == {id \in DOMAIN surveys : surveys[id].status = "pending"}

\* sendSatisfactionSurveys() up to the posts of its mappers: the scheduler
\* starts it whether or not an earlier invocation is still running
sendSatisfactionSurveys(p) ==
  /\ passes[p].pc \in {"idle", "done"}
  /\ passes' = [passes EXCEPT ![p] = [pc |-> "running",
                                      task |-> [id \in FindPending |-> "posting"]]]
  /\ UNCHANGED <<surveys, dispatched>>

\* a mapper after its post: the endpoint accepted the message, or the post threw
postAnswered(p, id, ok) ==
  /\ passes[p].pc = "running"
  /\ id \in DOMAIN passes[p].task
  /\ passes[p].task[id] = "posting"
  /\ ok => dispatched[id] < MaxPasses
  /\ dispatched' = IF ok THEN [dispatched EXCEPT ![id] = @ + 1] ELSE dispatched
  /\ passes' = [passes EXCEPT ![p].task[id] = IF ok THEN "marking_sent"
                                                    ELSE "marking_failed"]
  /\ UNCHANGED surveys

\* a mapper's update({ where: { id }, data: { status } }): part_004 updates the
\* table it read, sendSatisfactionSurveys.service.ts updates
\* neppo_satisfaction_surveys, so the row it read keeps its status
updateStatus(p, id) ==
  /\ passes[p].pc = "running"
  /\ id \in DOMAIN passes[p].task
  /\ passes[p].task[id] \in {"marking_sent", "marking_failed"}
  /\ LET status == IF passes[p].task[id] = "marking_sent" THEN "sent" ELSE "failed"
     IN  /\ surveys' = IF sendVariant = "part_004"
                         THEN [surveys EXCEPT ![id].status = status]
                         ELSE surveys
         /\ passes' = [passes EXCEPT ![p].task[id] = status]
  /\ UNCHANGED dispatched

\* Promise.allSettled resolves once every mapper has settled
sendSatisfactionSurveysSettles(p) ==
  /\ passes[p].pc = "running"
  /\ \A id \in DOMAIN passes[p].task : passes[p].task[id] \in {"sent", "failed"}
  /\ passes' = [passes EXCEPT ![p].pc = "done"]
  /\ UNCHANGED <<surveys, dispatched>>

\* the rows' (sequential_id, type) pairs, as a findMany() of the whole table reads them
SurveyKeys == {<<surveys[id].sequential_id, surveys[id].type>> : id \in DOMAIN surveys}

\* createCloudSatisfactionSurveys() up to its first page request: the table is
\* read once, before the loop
createCloudSatisfactionSurveys(r) ==
  /\ runs[r].pc \in {"idle", "done"}
  /\ runs' = [runs EXCEPT ![r] = [NoExtraction EXCEPT !.kind = "cloud", !.pc = "fetching",
                                                      !.snapshot = SurveyKeys,
                                                      !.requested = <<0>>]]
  /\ UNCHANGED <<surveys, dispatched>>

\* createDesktopSatisfactionSurveys() up to its request of the service-order list
createDesktopSatisfactionSurveys(r) ==
  /\ runs[r].pc \in {"idle", "done"}
  /\ runs' = [runs EXCEPT ![r] = [NoExtraction EXCEPT !.kind = "desktop", !.pc = "fetching",
                                                      !.requested = <<0>>]]
  /\ UNCHANGED <<surveys, dispatched>>

\* the remote source answered: the orders that pass the filters and are not
\* in the table as it was read start their mappers.  The desktop job reads
\* the table after the answer.
pageAnswered(r, content, isLast) ==
  /\ runs[r].pc = "fetching"
  /\ LET snapshot == IF runs[r].kind = "desktop" THEN SurveyKeys ELSE runs[r].snapshot
     IN  runs' = [runs EXCEPT
                    ![r].pc = "creating",
                    ![r].snapshot = snapshot,
                    ![r].pending = {o \in content : <<o, runs[r].kind>> \notin snapshot},
                    ![r].isLast = isLast]
  /\ UNCHANGED <<surveys, dispatched>>

\* a mapper's prisma create() of a 'pending' row
createSurvey(r, o) ==
  /\ runs[r].pc = "creating"
  /\ o \in runs[r].pending
  /\ Len(surveys) < MaxRecords
  /\ surveys' = Append(surveys, SurveyRow(o, runs[r].kind))
  /\ dispatched' = Append(dispatched, 0)
  /\ runs' = [runs EXCEPT ![r].pending = @ \ {o}]

\* a mapper that returns without a row: no in-person activity, no contact
\* with a phone, or a request of its own that threw
skipOrder(r, o) ==
  /\ runs[r].pc = "creating"
  /\ o \in runs[r].pending
  /\ runs' = [runs EXCEPT ![r].pending = @ \ {o}]
  /\ UNCHANGED <<surveys, dispatched>>

\* the page counter after a page that was not the last
NextPage(variant, page) ==
  IF variant = "part_003" THEN page + 1 ELSE page

\* Promise.allSettled resolved: the desktop job returns; the cloud job leaves
\* its loop after a last page and requests a page otherwise
pageSettled(r) ==
  /\ runs[r].pc = "creating"
  /\ runs[r].pending = {}
  /\ IF runs[r].kind = "desktop" \/ runs[r].isLast
       THEN runs' = [runs EXCEPT ![r].pc = "done"]
       ELSE /\ Len(runs[r].requested) < MaxPages
            /\ runs' = [runs EXCEPT
                          ![r].pc = "fetching",
                          ![r].page = NextPage(extractVariant, @),
                          ![r].requested = Append(@, NextPage(extractVariant, runs[r].page))]
  /\ UNCHANGED <<surveys, dispatched>>

\* the page request threw: the catch block logs and the job returns
pageRequestFails(r) ==
  /\ runs[r].pc = "fetching"
  /\ runs' = [runs EXCEPT ![r].pc = "done", ![r].failed = TRUE]
  /\ UNCHANGED <<surveys, dispatched>>

SendStep(A) ==
  /\ A
  /\ UNCHANGED <<sendVariant, extractVariant, runs>>
  /\ UNCHANGED <<now, steps>>
  /\ UNCHANGED authVars
  /\ UNCHANGED cacheVars
  /\ UNCHANGED oauthVars
  /\ UNCHANGED clientVars

ExtractStep(A) ==
  /\ steps < MaxExtractSteps
  /\ steps' = steps + 1
  /\ A
  /\ UNCHANGED <<sendVariant, extractVariant, passes>>
  /\ UNCHANGED now
  /\ UNCHANGED authVars
  /\ UNCHANGED cacheVars
  /\ UNCHANGED oauthVars
  /\ UNCHANGED clientVars

Init ==
  /\ now = StartTime
  /\ steps = 0
  /\ InitAuth
  /\ InitCache
  /\ InitOAuth
  /\ InitClient
  /\ InitPipeline

NextAuth ==
  \/ \E d \in Deltas : Tick(d)
  \/ \E h \in IssueHeaders : Issue(h)
  \/ \E h \in AuthorizeHeaders, r \in RoleLists : Authorize(h, r)

NextStore ==
  \/ NextAuth
  \/ \E active \in BOOLEAN, r \in UpdatedRoleLists : UpdateUser(<<"alice">>, active, r)

NextCache ==
  \/ \E d \in CacheDeltas : TickCache(d)
  \/ \E c \in Callers : CacheStep(authenticateHit(c) /\ UNCHANGED now)
  \/ \E c \in Callers : CacheStep(authenticateMiss(c) /\ UNCHANGED now)
  \/ \E c \in Callers, k \in ExtractedTokens, x \in ExtractedExpiries :
       CacheStep(obtainToken(c, k, x) /\ UNCHANGED now)
  \/ \E c \in Callers :
       CacheStep(obtainToken(c, "abc", QueryGatewayExpiresIn(now)) /\ UNCHANGED now)
  \/ \E c \in Callers : CacheStep(obtainTokenFails(c) /\ UNCHANGED now)
  \/ \E c \in Callers : CacheStep(authenticateResume(c) /\ UNCHANGED now)
  \/ CacheStep(invalidateToken /\ UNCHANGED now)

NextOAuth ==
  \/ \E d \in OAuthDeltas : TickOAuth(d)
  \/ \E s \in GeneratedStates : OAuthStep(getAuthorizationUrl(s) /\ UNCHANGED now)
  \/ \E url \in CallbackUrls : OAuthStep(handleCallback(url) /\ UNCHANGED now)
  \/ \E response \in TokenResponses :
       OAuthStep(handleCallbackResponse(response) /\ UNCHANGED now)
  \/ OAuthStep(handleCallbackFails /\ UNCHANGED now)
  \/ \E r \in {Null, "rt1"}, x \in {0, 1} :
       OAuthStep(setTokens("at1", r, x) /\ UNCHANGED now)
  \/ \E withParameterMap \in BOOLEAN : OAuthStep(getToken(withParameterMap) /\ UNCHANGED now)
  \/ \E response \in TokenResponses :
       OAuthStep(refreshAccessToken(response) /\ UNCHANGED now)
  \/ OAuthStep(refreshAccessTokenFails /\ UNCHANGED now)
  \/ \E response \in TokenResponses :
       OAuthStep(acquireTokenResponse(response) /\ UNCHANGED now)
  \/ OAuthStep(acquireTokenFails /\ UNCHANGED now)
  \/ \E revokeRefreshToken \in BOOLEAN :
       OAuthStep(revokeToken(revokeRefreshToken) /\ UNCHANGED now)
  \/ \E ok \in BOOLEAN : OAuthStep(revokeTokenSettles(ok) /\ UNCHANGED now)

NextClient ==
  \/ ClientStep(setAuthenticationStrategy)
  \/ ClientStep(clearAuthenticationStrategy)
  \/ \E c \in Callers : ClientStep(request(c))
  \/ \E c \in Callers, k \in ExtractedTokens, x \in ExtractedExpiries :
       ClientStep(exchangeAnswered(c, k, x))
  \/ \E c \in Callers : ClientStep(interceptorResolved(c))
  \/ \E c \in Callers : ClientStep(interceptorRejected(c))
  \/ ClientStep(invalidateToken /\ UNCHANGED clientVars)

NextSend ==
  \/ \E p \in Passes : SendStep(sendSatisfactionSurveys(p))
  \/ \E p \in Passes, id \in 1..MaxRecords, ok \in BOOLEAN : SendStep(postAnswered(p, id, ok))
  \/ \E p \in Passes, id \in 1..MaxRecords : SendStep(updateStatus(p, id))
  \/ \E p \in Passes : SendStep(sendSatisfactionSurveysSettles(p))

NextExtract ==
  \/ \E r \in Runs : ExtractStep(createCloudSatisfactionSurveys(r))
  \/ \E r \in Runs : ExtractStep(createDesktopSatisfactionSurveys(r))
  \/ \E r \in Runs, content \in SUBSET Orders, isLast \in BOOLEAN :
       ExtractStep(pageAnswered(r, content, isLast))
  \/ \E r \in Runs, o \in Orders : ExtractStep(createSurvey(r, o))
  \/ \E r \in Runs, o \in Orders : ExtractStep(skipOrder(r, o))
  \/ \E r \in Runs : ExtractStep(pageSettled(r))
  \/ \E r \in Runs : ExtractStep(pageRequestFails(r))

Next == NextStore \/ NextCache \/ NextOAuth \/ NextClient \/ NextSend \/ NextExtract

Spec == Init /\ [][Next]_vars

\* the issuer and the authorizer of every deployment, beside an unused strategy
\* built with the default expirationBuffer
PipelineUnused ==
  /\ sendVariant = "part_004"
  /\ extractVariant = "part_003"
  /\ surveys = <<>>

InitAuthOnly ==
  /\ Init
  /\ expirationBuffer = 60000
  /\ oauth.grantType = "authorization_code"
  /\ PipelineUnused

SpecAuth == InitAuthOnly /\ [][NextAuth]_vars

\* the issuer and the authorizer of a configured deployment whose users table
\* changes while tokens are out
InitStore ==
  /\ InitAuthOnly
  /\ env.JWT_SECRET = "k1"
  /\ env.JWT_EXPIRES_IN = <<"2", "h">>

SpecStore == InitStore /\ [][NextStore]_vars

\* one BasicAndBearerStrategy instance and its callers, beside one deployment
InitCacheOnly ==
  /\ Init
  /\ env = [JWT_SECRET |-> "k1", JWT_EXPIRES_IN |-> <<"2", "h">>, variant |-> "app"]
  /\ oauth.grantType = "authorization_code"
  /\ PipelineUnused

SpecCache == InitCacheOnly /\ [][NextCache]_vars

\* one HttpClient whose callers send requests through its interceptor
SpecClient == InitCacheOnly /\ [][NextClient]_vars

\* one OAuthStrategy instance of any grant type, beside one deployment
InitOAuthOnly ==
  /\ Init
  /\ env = [JWT_SECRET |-> "k1", JWT_EXPIRES_IN |-> <<"2", "h">>, variant |-> "app"]
  /\ expirationBuffer = 60000
  /\ PipelineUnused

SpecOAuth == InitOAuthOnly /\ [][NextOAuth]_vars

\* the send job of either variant over a table of pending rows, beside one
\* deployment of the rest
InitSend ==
  /\ Init
  /\ env = [JWT_SECRET |-> "k1", JWT_EXPIRES_IN |-> <<"2", "h">>, variant |-> "app"]
  /\ expirationBuffer = 60000
  /\ oauth.grantType = "authorization_code"
  /\ extractVariant = "part_003"
  /\ surveys # <<>>

SpecSend == InitSend /\ [][NextSend]_vars

\* the scheduler goes on starting the send job, and every request and
\* update is answered
SpecSendFair == InitSend /\ [][NextSend]_vars /\ WF_vars(NextSend)

\* the extraction jobs of either variant over an empty table
InitExtract ==
  /\ Init
  /\ env = [JWT_SECRET |-> "k1", JWT_EXPIRES_IN |-> <<"2", "h">>, variant |-> "app"]
  /\ expirationBuffer = 60000
  /\ oauth.grantType = "authorization_code"
  /\ sendVariant = "part_004"
  /\ surveys = <<>>

SpecExtract == InitExtract /\ [][NextExtract]_vars

(***************************************************************************)
(* Vocabulary of the claims about the issuer and the authorizer.           *)
(***************************************************************************)
\* the authorizer was called with a token in a header form the variant reads
TokenPresented ==
  /\ authz.called
  /\ env.JWT_SECRET # ""
  /\ authz.call.header.present
  /\ authz.call.header.scheme = "Bearer" \/ (env.variant = "app" /\ authz.call.header.scheme = "")

PresentedTok == authz.call.header.tok

SignatureVerifies == PresentedTok.kind = "jwt" /\ PresentedTok.sig = env.JWT_SECRET

\* the middleware passed the request on and sent nothing
Succeeded(run) == run.nextCalls = 1 /\ run.responses = <<>> /\ ~run.threw

\* the middleware answered with exactly this error and did not pass the request on
FailedWith(run, kind) == run.nextCalls = 0 /\ run.responses = <<kind>>

Subset(required, held) == \A i \in 1..Len(required) : Includes(held, required[i])

\* text before / after the first colon of the decoded credentials
RECURSIVE FirstColon(_, _)
FirstColon(text, i) ==
  IF i > Len(text) THEN 0 ELSE IF text[i] = ":" THEN i ELSE FirstColon(text, i + 1)

BeforeFirstColon(text) ==
  IF FirstColon(text, 1) = 0 THEN text ELSE SubSeq(text, 1, FirstColon(text, 1) - 1)

AfterFirstColon(text) ==
  IF FirstColon(text, 1) = 0 THEN <<>> ELSE SubSeq(text, FirstColon(text, 1) + 1, Len(text))

\* the error kind the five ordered checks of the issuer prescribe, "Ok" if all
\* pass.  The configuration check is read with the variant: app.service.ts asks
\* for JWT_EXPIRES_IN beside JWT_SECRET and answers both with the same error.
PrescribedIssueKindIn(store, header) ==
  LET name == BeforeFirstColon(header.text)
  IN  IF env.JWT_SECRET = "" THEN "ConfigError"
      ELSE IF env.variant = "app" /\ env.JWT_EXPIRES_IN = Unset THEN "ConfigError"
      ELSE IF ~header.present \/ header.scheme # "Basic" THEN "MalformedRequest"
      ELSE IF name \notin DOMAIN store THEN "NotFound"
      ELSE IF ~store[name].is_user_active THEN "Inactive"
      ELSE IF store[name].password # BcryptHash(AfterFirstColon(header.text))
        THEN "BadCredentials"
      ELSE "Ok"

PrescribedIssueKind(header) == PrescribedIssueKindIn(users, header)

(***************************************************************************)
(* C1: for a validly signed, unexpired token, authorize succeeds (claims   *)
(* attached, request passed downstream) when every required role is in    *)
(* the token's role list, and fails with InsufficientRole without passing  *)
(* the request downstream when a required role is missing.                 *)
(***************************************************************************)
C1_RoleGateDecides ==
  (/\ TokenPresented
   /\ JwtVerify(PresentedTok, env.JWT_SECRET, authz.call.at) = "ok"
   /\ ~ClaimExpired(env.variant, PresentedTok, authz.call.at))
  => IF Subset(authz.call.roleList, PresentedTok.roleList)
       THEN Succeeded(authz.run) /\ authz.run.user = PresentedTok
       ELSE FailedWith(authz.run, "InsufficientRole")

(***************************************************************************)
(* C2: a token whose signature verifies and whose application-level expiry *)
(* is earlier than the current time is refused with Expired, whatever the  *)
(* library's exp and whatever the required roles; with lifetime "2h" a     *)
(* token issued at T is accepted at T + 7,200,000 and refused as Expired   *)
(* at T + 7,200,001.                                                       *)
(***************************************************************************)
C2_ExpiredClaimRefused ==
  /\ (/\ TokenPresented
      /\ SignatureVerifies
      /\ PresentedTok.nbf <= authz.call.at \div 1000
      /\ PresentedTok.hasExpiresIn
      /\ authz.call.at > PresentedTok.expiresIn)
     => FailedWith(authz.run, "Expired")
  /\ (/\ TokenPresented
      /\ env.JWT_EXPIRES_IN = <<"2", "h">>
      /\ issued.result.kind = "Ok"
      /\ PresentedTok = issued.result.token
      /\ authz.call.roleList = <<>>)
     => /\ authz.call.at = issued.call.at + 7200000 => Succeeded(authz.run)
        /\ authz.call.at = issued.call.at + 7200001 => FailedWith(authz.run, "Expired")

(***************************************************************************)
(* C3: issue checks, in this order, secret configured, Basic header        *)
(* present, user exists, user active, password matches; the first failing  *)
(* check alone decides the error kind, and the result carries a token if   *)
(* and only if all five checks pass.                                       *)
(***************************************************************************)
C3_IssueAllOrNothing ==
  issued.result.kind # "none"
  => /\ issued.result.kind = PrescribedIssueKind(issued.call.header)
     /\ (issued.result.token # NoToken) <=> (PrescribedIssueKind(issued.call.header) = "Ok")

(***************************************************************************)
(* C10: authorize called right after a successful issue (same secret, same *)
(* clock reading, before the expiry, no required roles) succeeds and       *)
(* yields the username, role list and application-level expiry that issue  *)
(* returned in plaintext beside the token.                                 *)
(***************************************************************************)
IssuedThenAuthorized ==
  /\ TokenPresented
  /\ issued.result.kind = "Ok"
  /\ PresentedTok = issued.result.token
  /\ authz.call.at = issued.call.at
  /\ authz.call.at < issued.result.expiresIn
  /\ authz.call.roleList = <<>>

C10_IssueAuthorizeRoundTrip ==
  IssuedThenAuthorized
  => /\ Succeeded(authz.run)
     /\ authz.run.user.username = issued.result.username
     /\ authz.run.user.roleList = issued.result.roleList
     /\ authz.run.user.expiresIn = issued.result.expiresIn

C10_Witness ==
  /\ IssuedThenAuthorized
  /\ authz.run.nextCalls = 1
  /\ authz.run.user.roleList = <<"admin", "audit">>

(***************************************************************************)
(* C11: for every active user record and every matching username and       *)
(* password, issue returns claims, and embeds in the token, a role list    *)
(* equal to the user's role list as the user store held it during that     *)
(* call, with no role added or dropped.                                    *)
(***************************************************************************)
C11_IssuedRolesAreStoreRoles ==
  (/\ issued.result.kind # "none"
   /\ PrescribedIssueKindIn(issued.call.store, issued.call.header) = "Ok")
  => LET name == BeforeFirstColon(issued.call.header.text)
     IN  /\ issued.result.kind = "Ok"
         /\ issued.result.roleList = issued.call.store[name].role_list
         /\ issued.result.token.roleList = issued.call.store[name].role_list

(***************************************************************************)
(* C12: with the signing secret configured and no Authorization header,    *)
(* authorize answers MissingToken, never InvalidToken, whatever roles are  *)
(* required, and does not call the token verification; with the secret not *)
(* configured its result is ConfigError whatever the header.                *)
(***************************************************************************)
\* the ConfigError result: sent as the response, or returned to the caller
ConfigErrorResult(run) ==
  /\ run.nextCalls = 0
  /\ \/ run.responses = <<"ConfigError">> /\ run.returned = "none"
     \/ run.responses = <<>> /\ run.returned = "ConfigError"

C13_VerifyErrorsDistinguished ==
  TokenPresented
  => LET verdict == JwtVerify(PresentedTok, env.JWT_SECRET, authz.call.at)
     IN  /\ verdict = "JsonWebTokenError" => FailedWith(authz.run, "InvalidToken")
         /\ verdict = "NotBeforeError" => FailedWith(authz.run, "NotYetActive")
         /\ verdict = "TokenExpiredError" => FailedWith(authz.run, "Expired")

(***************************************************************************)
(* C14: for every token, authorize gives the same outcome whether the      *)
(* header carries the bare token or the token behind the Bearer prefix.    *)
(***************************************************************************)
OtherForm(header) ==
  [header EXCEPT !.scheme = IF header.scheme = "Bearer" THEN "" ELSE "Bearer"]

C14_BareAndBearerAgree ==
  (/\ authz.called
   /\ authz.call.header.present
   /\ authz.call.header.scheme \in {"Bearer", ""})
  => authz.run = getAuthorization(env.variant, env, OtherForm(authz.call.header),
                                  authz.call.roleList, authz.call.at)

(***************************************************************************)
(* C15: issue splits the decoded credentials at the first colon only: for  *)
(* every username and every password, passwords with colons included, the  *)
(* value compared with the stored hash is all the text after the first     *)
(* colon, so the password check fails exactly when that text is not the    *)
(* stored password.                                                        *)
(***************************************************************************)
ReachedPasswordCheck ==
  LET header == issued.call.header
      name == BeforeFirstColon(header.text)
  IN  /\ issued.result.kind # "none"
      /\ env.JWT_SECRET # ""
      /\ ~(env.variant = "app" /\ env.JWT_EXPIRES_IN = Unset)
      /\ header.present /\ header.scheme = "Basic"
      /\ FirstColon(header.text, 1) # 0
      /\ name \in DOMAIN issued.call.store
      /\ issued.call.store[name].is_user_active

C15_SplitsOnFirstColon ==
  ReachedPasswordCheck
  => LET header == issued.call.header
         stored == issued.call.store[BeforeFirstColon(header.text)].password
     IN  issued.result.kind = "BadCredentials"
         <=> stored # BcryptHash(AfterFirstColon(header.text))

(***************************************************************************)
(* C16: a successful issue at time T with lifetime <n><unit> returns       *)
(* expiresAt = T + n * 1000 for s, n * 60,000 for m, n * 3,600,000 for h,  *)
(* n * 86,400,000 for d and T + 3,600,000 for any other unit; with such    *)
(* another unit issue still succeeds and returns a token.                  *)
(***************************************************************************)
LifetimeUnitMs == [u \in {"s", "m", "h", "d"} |->
  CASE u = "s" -> 1000 [] u = "m" -> 60000 [] u = "h" -> 3600000 [] u = "d" -> 86400000]

PrescribedExpiresAt(lifetime, t) ==
  IF lifetime[Len(lifetime)] \in DOMAIN LifetimeUnitMs
    THEN t + parseInt(SliceInit(lifetime)) * LifetimeUnitMs[lifetime[Len(lifetime)]]
    ELSE t + 3600000

C16_LifetimeUnits ==
  (issued.result.kind # "none" /\ env.JWT_EXPIRES_IN # Unset)
  => /\ issued.result.kind = "Ok"
        => issued.result.expiresIn = PrescribedExpiresAt(env.JWT_EXPIRES_IN, issued.call.at)
     /\ (/\ PrescribedIssueKindIn(issued.call.store, issued.call.header) = "Ok"
         /\ ~Includes(AfterFirstColon(issued.call.header.text), ":")
         /\ env.JWT_EXPIRES_IN[Len(env.JWT_EXPIRES_IN)] \notin DOMAIN LifetimeUnitMs)
        => issued.result.kind = "Ok" /\ issued.result.token # NoToken

(***************************************************************************)
(* C17: a token issued to a user stays accepted by authorize until its     *)
(* expiry although the user record was deactivated or its role list        *)
(* changed after the issue: authorize does not read the user store, and    *)
(* its role test uses the roles the token got at issuance.                 *)
(***************************************************************************)
IssuedTokenStillLive ==
  /\ TokenPresented
  /\ issued.result.kind = "Ok"
  /\ PresentedTok = issued.result.token
  /\ JwtVerify(PresentedTok, env.JWT_SECRET, authz.call.at) = "ok"
  /\ ~ClaimExpired(env.variant, PresentedTok, authz.call.at)

C17_NoRevocation ==
  IssuedTokenStillLive
  => /\ authz.run.verified
     /\ Subset(authz.call.roleList, issued.result.roleList)
        => Succeeded(authz.run) /\ authz.run.user.roleList = issued.result.roleList
     /\ ~Subset(authz.call.roleList, issued.result.roleList)
        => authz.run.responses = <<"InsufficientRole">>

C17_Witness ==
  /\ IssuedTokenStillLive
  /\ issued.result.username = <<"alice">>
  /\ issued.call.store[<<"alice">>].role_list = <<"admin", "audit">>
  /\ ~authz.call.store[<<"alice">>].is_user_active
  /\ authz.call.store[<<"alice">>].role_list = <<"audit">>
  /\ authz.call.roleList = <<"admin">>
  /\ authz.call.at > issued.call.at
  /\ Succeeded(authz.run)

(***************************************************************************)
(* Vocabulary of the claims about the credential exchange cache.           *)
(***************************************************************************)
\* the last operation was an entry into authenticate()
Entered == last.op \in {"hit", "miss"}

\* the last operation handed a token to its caller
Handed == last.op \in {"hit", "resumed"}

\* the cache is as the last operation found it
CacheAsFound == token = last.token /\ expiresAt = last.expiresAt

Awaiting == {c \in Callers : pc[c] = "awaiting"}

(***************************************************************************)
(* C4: the token authenticate hands out is never one the cache's own       *)
(* bookkeeping marks as expired (now >= expiresAt) or absent (null or      *)
(* undefined), under any interleaving of callers and invalidateToken.      *)
(***************************************************************************)
C4_HandsOutOnlyLiveTokens ==
  Handed => /\ last.handed \notin {TokenNull, TokenUndefined}
            /\ ~(expiresAt # NaN /\ last.at >= expiresAt)

(***************************************************************************)
(* C5: when the exchange fails in transport, or the extractors yield no    *)
(* usable token or expiry, the call fails and the cached token and expiry  *)
(* are what they were before it.                                           *)
(***************************************************************************)
C5_FailedExchangeCachesNothing ==
  /\ last.op = "exchangeFailed" => pc[last.caller] = "failed" /\ CacheAsFound
  /\ (/\ last.op = "exchanged"
      /\ ~Truthy(last.extractedToken) \/ last.extractedExpiry = NaN)
     => pc[last.caller] = "failed" /\ CacheAsFound

(***************************************************************************)
(* C6 as claimed: at most one exchange call is in flight at any time.      *)
(***************************************************************************)
C6_SingleFlight == inflight <= 1

(***************************************************************************)
(* C6 as amended: every authenticate invocation that finds the cache       *)
(* invalid makes exactly one exchange call of its own; concurrent callers  *)
(* are not de-duplicated, so the calls in flight are as many as the        *)
(* callers waiting in obtainToken.                                         *)
(***************************************************************************)
C6_OneExchangePerMiss ==
  /\ inflight = Cardinality(Awaiting)
  /\ \A c \in Callers : transport[c] <= 1 /\ (pc[c] = "awaiting" => transport[c] = 1)
  /\ last.op = "miss" => ~isTokenValid(last.token, last.expiresAt, last.at)

C6_Witness == inflight = 2 /\ Cardinality(Awaiting) = 2

(***************************************************************************)
(* C7: whenever the cache holds a token and now < expiresAt, authenticate  *)
(* makes no transport call, returns the cached token and leaves the cached *)
(* token and expiry unchanged, call after call.                            *)
(***************************************************************************)
C7_CacheHitIsFree ==
  (Entered /\ Truthy(last.token) /\ Less(last.at, last.expiresAt))
  => /\ last.op = "hit"
     /\ last.handed = last.token
     /\ CacheAsFound
     /\ transport[last.caller] = 0
     /\ pc[last.caller] = "done"

C7_Witness ==
  /\ last.op = "hit"
  /\ last.after = "hit"
  /\ last.at = last.expiresAt - 1
  /\ last.handed = "abc"

C9_ExpiryArithmetic ==
  /\ (last.op = "exchanged" /\ Truthy(last.extractedToken) /\ last.extractedExpiry # NaN)
     => /\ token = last.extractedToken
        /\ expiresAt = last.at + last.extractedExpiry - expirationBuffer
  /\ (Entered /\ Truthy(last.token) /\ last.expiresAt # NaN)
     => (last.op = "hit" <=> last.at < last.expiresAt)

C9_Witness ==
  /\ last.op = "miss"
  /\ last.token = "abc"
  /\ expirationBuffer = 100
  /\ last.at = last.expiresAt
  /\ last.expiresAt = StartTime + 1000 - 100

(***************************************************************************)
(* C18: exchange failures are not retried inside the cache: one            *)
(* authenticate invocation makes at most one exchange call, and when that  *)
(* call fails the invocation fails without a second attempt.               *)
(***************************************************************************)
C18_NoRetry ==
  /\ \A c \in Callers : transport[c] \in {0, 1}
  /\ last.op = "exchangeFailed"
     => /\ pc[last.caller] = "failed"
        /\ transport[last.caller] = 1
        /\ last.caller \notin Awaiting

C18_Witness ==
  /\ last.op = "exchangeFailed"
  /\ last.after = "miss"
  /\ pc[last.caller] = "failed"
  /\ inflight = 0

(***************************************************************************)
(* C19: when two exchanges overlap, after both completed the cached token  *)
(* and expiry are both those of the response that completed last; in every *)
(* state in between the cached token and the cached expiry come from one   *)
(* and the same response (an exchange writes both at once, and no other    *)
(* step of authenticate writes either).                                    *)
(***************************************************************************)
C19_LastWriterWins ==
  /\ last.op = "exchanged"
     => /\ token = last.extractedToken
        /\ expiresAt = ExpiryOf(last.at, last.extractedExpiry, expirationBuffer)
  /\ last.op \in {"hit", "miss", "resumed", "exchangeFailed"} => CacheAsFound
  /\ last.op = "invalidated" => token = TokenNull /\ expiresAt = 0

C19_Witness ==
  /\ last.op = "exchanged"
  /\ last.after = "exchanged"
  /\ Cardinality({c \in Callers : pc[c] = "resolved"}) >= 2
  /\ last.token = "abc"
  /\ token = "xyz"
  /\ expiresAt = last.at + 1000 - expirationBuffer

(***************************************************************************)
(* C20: handleCallback goes on to accept or exchange tokens only if the    *)
(* state of the callback equals the state a preceding getAuthorizationUrl  *)
(* call generated on the same instance; in every other case it throws the  *)
(* state-mismatch error and leaves the access token, the refresh token and *)
(* expiresAt as they were.                                                 *)
(***************************************************************************)
\* the state parameter handleCallback reads from the callback URL
CallbackState(url) ==
  IF oauth.grantType = "implicit" THEN url.hash.state ELSE url.search.state

StateWasGeneratedAndMatches ==
  /\ oauthLast.urlIssued
  /\ oauthLast.found.state \in GeneratedStates
  /\ CallbackState(oauthLast.url) = oauthLast.found.state

C20_CallbackStateVerified ==
  oauthLast.op = "handleCallback"
  => IF StateWasGeneratedAndMatches
       THEN oauthLast.outcome # "StateMismatch"
       ELSE /\ oauthLast.outcome = "StateMismatch"
            /\ oauthPc = "idle"
            /\ oauth.accessTokenValue = oauthLast.found.accessTokenValue
            /\ oauth.refreshTokenValue = oauthLast.found.refreshTokenValue
            /\ oauth.expiresAt = oauthLast.found.expiresAt

(***************************************************************************)
(* C22: every invocation of the getAuthorization middleware ends in        *)
(* exactly one of two outcomes: one error response sent and next() never   *)
(* called, or no response sent and next() called exactly once; on every    *)
(* path (missing secret, missing or malformed header, verification error,  *)
(* one or several missing roles, expired claim, success).                  *)
(***************************************************************************)
C22_ExactlyOneOutcome ==
  authz.called
  => /\ ~authz.run.threw
     /\ \/ Len(authz.run.responses) = 1 /\ authz.run.nextCalls = 0
        \/ authz.run.responses = <<>> /\ authz.run.nextCalls = 1

(***************************************************************************)
(* C23: with the expirationExtractor of createDesktopSatisfactionSurveys   *)
(* (the expiresIn field of the response, unchanged) and an issuer that     *)
(* answers the absolute expiry time E in that field, as getAuthentication  *)
(* does, the cached expiresAt is at most E, so the token is not attached   *)
(* once the issuer holds it expired.                                       *)
(***************************************************************************)
C23_AbsoluteExpiryBoundsCache ==
  (/\ last.op = "exchanged"
   /\ last.extractedExpiry = QueryGatewayExpiresIn(last.at))
  => expiresAt <= last.extractedExpiry

IsGrantCall(call) == call \in {"client_credentials", "password"}

(***************************************************************************)
(* C25: getToken follows a fixed order: a valid access token is returned   *)
(* without a request; otherwise, if a refresh token exists, exactly one    *)
(* refresh is tried first; the acquisition of the grant type               *)
(* (client_credentials or password) is tried only when there is no refresh *)
(* token or the refresh failed, and for the authorization_code and         *)
(* implicit grants getToken fails instead of acquiring a token.            *)
(***************************************************************************)
C25_GetTokenOrder ==
  oauthLast.op = "getToken"
  => LET found == oauthLast.found
         calls == oauthLast.calls
         valid == found.accessTokenValue # Null /\ oauthLast.at < found.expiresAt
     IN  /\ valid => /\ calls = <<>>
                     /\ oauthLast.outcome = "Returned"
                     /\ oauthLast.returned = found.accessTokenValue
         /\ (~valid /\ found.refreshTokenValue # Null)
            => /\ calls # <<>> /\ calls[1] = "refresh_token"
               /\ \A i \in 2..Len(calls) : IsGrantCall(calls[i]) /\ oauthLast.refreshFailed
               /\ Len(calls) <= 2
         /\ (~valid /\ found.refreshTokenValue = Null)
            => /\ Len(calls) <= 1
               /\ \A i \in 1..Len(calls) : IsGrantCall(calls[i])
               /\ ~oauthLast.refreshFailed
         /\ \A i \in 1..Len(calls) : IsGrantCall(calls[i]) => calls[i] = oauth.grantType
         /\ (/\ oauth.grantType \in {"authorization_code", "implicit"}
             /\ ~valid
             /\ found.refreshTokenValue = Null \/ oauthLast.refreshFailed)
            => oauthLast.outcome = "InteractionRequired" /\ oauthLast.returned = Null

C25_Witness ==
  /\ oauthLast.op = "getToken"
  /\ oauthLast.found.accessTokenValue = "at1"
  /\ oauthLast.found.refreshTokenValue = "rt1"
  /\ oauthLast.refreshFailed
  /\ oauthLast.calls = <<"refresh_token", "client_credentials">>
  /\ oauthLast.outcome = "Returned"
  /\ oauth.accessTokenValue = oauthLast.returned

(***************************************************************************)
(* C26: after revokeToken(url, true) completes, in any prior state and     *)
(* whether or not the revocation requests succeed, the strategy holds no   *)
(* access token, no refresh token and expiresAt = 0; after                 *)
(* revokeToken(url, false) it holds no access token and the refresh token  *)
(* is unchanged.                                                           *)
(***************************************************************************)
C26_RevokeForgetsTokens ==
  (oauthLast.op = "revokeToken" /\ oauthLast.outcome # "Revoking")
  => IF oauthLast.revokeRefreshToken
       THEN /\ oauth.accessTokenValue = Null
            /\ oauth.refreshTokenValue = Null
            /\ oauth.expiresAt = 0
       ELSE /\ oauth.accessTokenValue = Null
            /\ oauth.refreshTokenValue = oauthLast.found.refreshTokenValue

\* some running pass has the row's post outstanding
Attempting(id) ==
  \E p \in Passes : id \in DOMAIN passes[p].task /\ passes[p].task[id] = "posting"

(***************************************************************************)
(* C21: the pipeline retries failed deliveries: a survey row whose         *)
(* dispatch failed (status 'failed') is attempted again by a later send    *)
(* pass.                                                                   *)
(***************************************************************************)
C21_FailedIsRetried ==
  \A id \in 1..MaxRecords :
    (id \in DOMAIN surveys /\ surveys[id].status = "failed" /\ ~Attempting(id))
      ~> Attempting(id)

(***************************************************************************)
(* C27: when a send pass has completed, every row it read as 'pending' is  *)
(* 'sent' if and only if its dispatch succeeded and 'failed' otherwise;    *)
(* none of them is still 'pending'.                                        *)
(***************************************************************************)
C27_PassMarksEveryRow ==
  \A p \in Passes :
    passes[p].pc = "done"
    => \A id \in DOMAIN passes[p].task : surveys[id].status = passes[p].task[id]

(***************************************************************************)
(* C28: across the send passes the scheduler starts, overlapping ones      *)
(* included, the message of one survey row is dispatched at most once.     *)
(***************************************************************************)
C28_DispatchedAtMostOnce ==
  \A id \in DOMAIN surveys : dispatched[id] <= 1

(***************************************************************************)
(* C29: after any number of extraction runs, overlapping ones included,    *)
(* the table holds at most one row per (sequential_id, type).              *)
(***************************************************************************)
C29_OneRowPerOrder ==
  \A i, j \in DOMAIN surveys :
    (/\ surveys[i].sequential_id = surveys[j].sequential_id
     /\ surveys[i].type = surveys[j].type)
    => i = j

(***************************************************************************)
(* C30: the loop of the cloud extraction job requests the pages 0, 1, 2,   *)
(* ... in increasing order, each at most once in a run, and stops after    *)
(* the first page whose `last` is true or at the first request error.      *)
(***************************************************************************)
C30_PagesInOrderOnce ==
  \A r \in Runs :
    runs[r].kind = "cloud"
    => /\ \A i \in 1..Len(runs[r].requested) : runs[r].requested[i] = i - 1
       /\ runs[r].pc = "done" => (runs[r].isLast \/ runs[r].failed)

====
